---- MODULE Spec2Model ----
(***************************************************************************)
(* Model of src/inet/ssl.c (Simba): the TLS session-management layer on    *)
(* top of mbedTLS.  The module keeps one static struct module_t with one   *)
(* configuration slot and one session slot; callers own ssl_context_t and  *)
(* ssl_socket_t objects that hold handles into those slots.                *)
(*                                                                         *)
(* The crypto engine (mbedTLS) and the socket are external: every result   *)
(* they return is an input chosen with \E from a small set.                *)
(*                                                                         *)
(* mbedtls_ssl_handshake, mbedtls_ssl_close_notify, mbedtls_ssl_write and  *)
(* mbedtls_ssl_read do their network I/O through ssl_recv / ssl_send and   *)
(* wait there for the peer; other threads run in the meantime.             *)
(* ssl_socket_open, ssl_socket_close, ssl_socket_write and ssl_socket_read *)
(* are therefore two steps each: up to the waiting engine call, and from   *)
(* its return.  The other calls make no engine call that waits.            *)
(***************************************************************************)
EXTENDS Integers, Sequences, FiniteSets, Bags

\* ---------------------------------------------------------------- bounds
NumContexts == 2
NumSessions == 2
MaxChain == 3
MaxIoLen == 2
MaxWaiting == 2

\* ------------------------------------------------------- program constants
\* ASSERTN(cond, -EINVAL) returns -EINVAL from the calling function when cond
\* is false.
EINVAL == 22

\* Pointers.  NULL is the null pointer; CONF is &module.conf, SSL is
\* &module.ssl; WILD is a non-NULL pointer to neither of them, as an object
\* nobody initialized may hold.  An object argument of 0 is a NULL self_p /
\* context_p.
NULL == "NULL"
CONF == "&module.conf"
SSL == "&module.ssl"
WILD == "wild"
NULL_OBJ == 0

Contexts == 1..NumContexts
Sessions == 1..NumSessions

\* Inputs of the calls.
Protocols == {0}
Sockets == {NULL, "sock"}
Modes == {0}
Buffers == {NULL, "buf"}
\* Results of the engine calls (mbedTLS error codes are never -1).
SeedResults == {0, -52}
DefaultsResults == {0, -28928}
SetupResults == {0, -32512}
HandshakeResults == {0, -80}
KeyResults == {0, -15616}
OwnCertResults == {0, -32512}
IoResults == {-80, 1}
\* mbedtls_ssl_write / mbedtls_ssl_read on a session object that is not set
\* up (zeroed, or freed by mbedtls_ssl_free): MBEDTLS_ERR_SSL_BAD_INPUT_DATA.
IoResultsNotSetUp == {-28928}
\* A PEM buffer is a sequence of blocks: a certificate id, or 0 for a block
\* the engine cannot parse.
CertIds == {1, 2}
PemBlocks == CertIds \cup {0}
PemBuffers == {<<b>> : b \in PemBlocks} \cup {<<1, 2>>, <<1, 0>>}
\* The cert_p argument: a NULL pointer or a PEM buffer.
CertArgs == {[null |-> TRUE, pem |-> <<>>]}
            \cup {[null |-> FALSE, pem |-> b] : b \in PemBuffers}
KeyBuffers == {NULL, "key"}
\* Arguments the engine passes to the Transport Bridge callbacks, and what
\* socket_write / socket_read return for a request of len bytes: an error,
\* zero, a partial count or the full count.
BridgeHandles == {"sock", "sock2"}
BridgeBuffers == {"buf", "buf2"}
BridgeLens == 0..MaxIoLen
SocketResults(len) == {-32, -1} \cup 0..len

VARIABLES
    initialized,     \* module.initialized
    ctr_drbg,        \* module.ctr_drbg: "raw", "seeded" or "unseeded"
    seedCalls,       \* number of mbedtls_ctr_drbg_seed calls made so far
    ssl_allocated,   \* module.ssl_allocated
    conf_allocated,  \* module.conf_allocated
    cert,            \* module.cert: the parsed certificate chain
    key,             \* module.key: "none" or "key"
    conf,            \* module.conf: the engine's configuration object
    ssl,             \* module.ssl: the engine's session object
    ctx,             \* the callers' struct ssl_context_t objects
    sock,            \* the callers' struct ssl_socket_t objects
    ctxOutstanding,  \* per Context: TRUE when its most recent ssl_context_init
                     \* returned 0 and no ssl_context_deinit on it returned 0 since
    sessState,       \* per Session, its history: "Unopened"; "Handshaking"
                     \* while an ssl_socket_open on it waits in the
                     \* handshake; "Established" when
                     \* its most recent ssl_socket_open returned 0 and no
                     \* ssl_socket_close on it returned 0 since; "Closed" when
                     \* ssl_socket_close returned 0 on it while Established;
                     \* "Error" when its most recent ssl_socket_open failed
    last,            \* the API call that returned in the last step: operation,
                     \* object, result, steps; "none" when the last step took
                     \* a call into an engine call that waits for the peer
    waiting,         \* the bag of calls that wait inside an engine call
                     \* (handshake, close-notify, write, read), each with
                     \* its arguments
    bridge           \* a Transport Bridge callback: its arguments, the socket
                     \* calls it made and its result

vars == <<initialized, ctr_drbg, seedCalls, ssl_allocated, conf_allocated,
          cert, key, conf, ssl, ctx, sock, ctxOutstanding, sessState, last,
          waiting, bridge>>

moduleVars == <<initialized, ctr_drbg, seedCalls>>
confVars == <<cert, key, conf>>

\* No Transport Bridge callback is running.
BridgeIdle == [pc |-> "idle", fn |-> "none", ctx_p |-> NULL, buf_p |-> NULL,
               len |-> 0, socketRes |-> 0, calls |-> <<>>, ret |-> 0]

ConfZero == [defaults |-> FALSE, rng |-> FALSE, ca_chain |-> 0, key_certs |-> 0]
SslZero == [state |-> "zero", conf |-> NULL, bio |-> NULL]

\* No call returned in this step.
LastNone == [op |-> "none", obj |-> NULL_OBJ, ret |-> 0, steps |-> <<>>]

\* The module is a zeroed static object.  The callers' objects are not
\* initialized by anything in the module: conf_p and ssl_p hold whatever the
\* caller's storage held, NULL for zeroed storage.
Init ==
    /\ initialized = 0
    /\ ctr_drbg = "raw"
    /\ seedCalls = 0
    /\ ssl_allocated = 0
    /\ conf_allocated = 0
    /\ cert = <<>>
    /\ key = "none"
    /\ conf = ConfZero
    /\ ssl = SslZero
    /\ ctx \in [Contexts -> {[protocol |-> 0, conf_p |-> p] :
                                p \in {NULL, CONF, WILD}}]
    /\ sock \in [Sessions -> {[ssl_p |-> p] : p \in {NULL, SSL, WILD}}]
    /\ ctxOutstanding = [c \in Contexts |-> FALSE]
    /\ sessState = [s \in Sessions |-> "Unopened"]
    /\ last = LastNone
    /\ waiting = EmptyBag
    /\ bridge = BridgeIdle

Return(op, obj, ret, steps) ==
    last' = [op |-> op, obj |-> obj, ret |-> ret, steps |-> steps]

\* ------------------------------------------------------------ allocators
\* alloc_ssl: the handle returned and the new value of module.ssl_allocated.
alloc_ssl(allocated) ==
    IF allocated = 1 THEN [p |-> NULL, flag |-> allocated]
    ELSE [p |-> SSL, flag |-> 1]

free_ssl_keep(ssl_p, allocated) == allocated

\* free_ssl: the new value of module.ssl_allocated; ssl_p is ignored.
free_ssl(ssl_p, allocated) == 0

alloc_conf(allocated) ==
    IF allocated = 1 THEN [p |-> NULL, flag |-> allocated]
    ELSE [p |-> CONF, flag |-> 1]

free_conf_keep(conf_p, allocated) == allocated

free_conf(conf_p, allocated) == 0

\* ------------------------------------------------------- ssl_module_init
ssl_module_init_reseed(seedRes) ==
    /\ initialized' = 1
    /\ seedCalls' = seedCalls + 1
    /\ ctr_drbg' = IF seedRes = 0 THEN "seeded" ELSE "unseeded"
    /\ Return("ssl_module_init", NULL_OBJ, IF seedRes # 0 THEN -1 ELSE 0,
              <<"mbedtls_entropy_init", "mbedtls_ctr_drbg_init",
                "mbedtls_ctr_drbg_seed">>)
    /\ UNCHANGED <<ssl_allocated, conf_allocated, confVars, ssl, ctx, sock,
                   ctxOutstanding, sessState,
                   waiting, bridge>>

ssl_module_init(seedRes) ==
    /\ IF initialized = 1
       THEN /\ Return("ssl_module_init", NULL_OBJ, 0, <<>>)
            /\ UNCHANGED moduleVars
       ELSE /\ initialized' = 1
            /\ seedCalls' = seedCalls + 1
            /\ ctr_drbg' = IF seedRes = 0 THEN "seeded" ELSE "unseeded"
            /\ Return("ssl_module_init", NULL_OBJ,
                      IF seedRes # 0 THEN -1 ELSE 0,
                      <<"mbedtls_entropy_init", "mbedtls_ctr_drbg_init",
                        "mbedtls_ctr_drbg_seed">>)
    /\ UNCHANGED <<ssl_allocated, conf_allocated, confVars, ssl, ctx, sock,
                   ctxOutstanding, sessState,
                   waiting, bridge>>

\* ------------------------------------------------------ ssl_context_init
ssl_context_init(c, protocol, defaultsRes) ==
    IF c = NULL_OBJ \/ initialized # 1
    THEN /\ Return("ssl_context_init", c, -EINVAL, <<>>)
         /\ ctxOutstanding' = IF c = NULL_OBJ THEN ctxOutstanding
                        ELSE [ctxOutstanding EXCEPT ![c] = FALSE]
         /\ UNCHANGED <<moduleVars, ssl_allocated, conf_allocated, confVars,
                        ssl, ctx, sock, sessState,
                   waiting, bridge>>
    ELSE LET a == alloc_conf(conf_allocated) IN
         /\ ctx' = [ctx EXCEPT ![c] = [protocol |-> protocol, conf_p |-> a.p]]
         /\ conf_allocated' = a.flag
         /\ IF a.p = NULL
            THEN /\ Return("ssl_context_init", c, -1, <<"alloc_conf">>)
                 /\ ctxOutstanding' = [ctxOutstanding EXCEPT ![c] = FALSE]
                 /\ UNCHANGED confVars
            ELSE /\ cert' = <<>>
                 /\ key' = "none"
                 /\ IF defaultsRes # 0
                    THEN /\ conf' = ConfZero
                         /\ ctxOutstanding' = [ctxOutstanding EXCEPT ![c] = FALSE]
                         /\ Return("ssl_context_init", c, -1,
                                   <<"alloc_conf", "mbedtls_ssl_config_init",
                                     "mbedtls_ssl_cookie_init",
                                     "mbedtls_x509_crt_init", "mbedtls_pk_init",
                                     "mbedtls_ssl_config_defaults">>)
                    ELSE /\ conf' = [ConfZero EXCEPT !.defaults = TRUE,
                                                     !.rng = TRUE]
                         /\ ctxOutstanding' = [ctxOutstanding EXCEPT ![c] = TRUE]
                         /\ Return("ssl_context_init", c, 0,
                                   <<"alloc_conf", "mbedtls_ssl_config_init",
                                     "mbedtls_ssl_cookie_init",
                                     "mbedtls_x509_crt_init", "mbedtls_pk_init",
                                     "mbedtls_ssl_config_defaults",
                                     "mbedtls_ssl_conf_rng">>)
         /\ UNCHANGED <<moduleVars, ssl_allocated, ssl, sock, sessState,
                   waiting, bridge>>

\* ---------------------------------------------------- ssl_context_deinit
ssl_context_deinit(c) ==
    IF c = NULL_OBJ \/ ctx[c].conf_p = NULL
    THEN /\ Return("ssl_context_deinit", c, -EINVAL, <<>>)
         /\ UNCHANGED <<moduleVars, ssl_allocated, conf_allocated, confVars,
                        ssl, ctx, sock, ctxOutstanding, sessState,
                        waiting, bridge>>
    ELSE /\ conf_allocated' = free_conf(ctx[c].conf_p, conf_allocated)
         /\ ctxOutstanding' = [ctxOutstanding EXCEPT ![c] = FALSE]
         /\ Return("ssl_context_deinit", c, 0, <<"free_conf">>)
         /\ UNCHANGED <<moduleVars, ssl_allocated, confVars, ssl, ctx, sock,
                        sessState,
                   waiting, bridge>>

\* ------------------------------------------- ssl_context_load_cert_chain
RECURSIVE ParsedBlocks(_)
\* The certificates of a PEM buffer that parse, in order.
ParsedBlocks(pem) ==
    IF pem = <<>> THEN <<>>
    ELSE IF Head(pem) = 0 THEN ParsedBlocks(Tail(pem))
    ELSE <<Head(pem)>> \o ParsedBlocks(Tail(pem))

\* mbedtls_x509_crt_parse(&module.cert, cert_p, ...): every block that parses
\* is appended to the chain; the result is 0 when all blocks parsed, the
\* number of failed blocks when some parsed, an error when none did.
x509_crt_parse(chain, pem) ==
    LET ok == ParsedBlocks(pem)
        failed == Len(pem) - Len(ok)
    IN [chain |-> chain \o ok,
        ret |-> IF ok # <<>> THEN failed ELSE -8576]

ssl_context_load_cert_chain(c, cert_p, key_p, keyRes, ownRes) ==
    IF c = NULL_OBJ \/ ctx[c].conf_p = NULL \/ cert_p.null
    THEN /\ Return("ssl_context_load_cert_chain", c, -EINVAL, <<>>)
         /\ UNCHANGED <<moduleVars, ssl_allocated, conf_allocated, confVars,
                        ssl, ctx, sock, ctxOutstanding, sessState,
                        waiting, bridge>>
    ELSE LET p == x509_crt_parse(cert, cert_p.pem) IN
         \* module.cert grows with every call: the chain is kept within
         \* MaxChain certificates.
         /\ Len(p.chain) <= MaxChain
         /\ cert' = p.chain
         /\ IF p.ret # 0
            THEN /\ Return("ssl_context_load_cert_chain", c, -1,
                           <<"mbedtls_x509_crt_parse">>)
                 /\ UNCHANGED <<key, conf>>
            ELSE IF key_p # NULL /\ keyRes # 0
            THEN /\ Return("ssl_context_load_cert_chain", c, -1,
                           <<"mbedtls_x509_crt_parse", "mbedtls_pk_parse_key">>)
                 /\ UNCHANGED <<key, conf>>
            ELSE /\ key' = IF key_p # NULL THEN key_p ELSE key
                 \* The two mbedtls_ssl_conf_ calls write through
                 \* self_p->conf_p: module.conf only when it points there.
                 /\ conf' = IF ctx[c].conf_p # CONF THEN conf
                            ELSE [conf EXCEPT
                        !.ca_chain = IF Len(p.chain) >= 2 THEN 2 ELSE 0,
                        !.key_certs = IF ownRes # 0 THEN @ ELSE @ + 1]
                 /\ Return("ssl_context_load_cert_chain", c,
                           IF ownRes # 0 THEN -1 ELSE 0,
                           (IF key_p # NULL
                            THEN <<"mbedtls_x509_crt_parse",
                                   "mbedtls_pk_parse_key">>
                            ELSE <<"mbedtls_x509_crt_parse">>)
                           \o <<"mbedtls_ssl_conf_ca_chain",
                                "mbedtls_ssl_conf_own_cert">>)
         /\ UNCHANGED <<moduleVars, ssl_allocated, conf_allocated, ssl, ctx,
                        sock, ctxOutstanding, sessState,
                   waiting, bridge>>

\* ------------------------------------------------------- ssl_socket_open
\* The calls of an ssl_socket_open whose handshake fails, in order: the
\* engine session is freed, then the jump to err releases the slot.
HandshakeFailedStepsSlotFirst ==
    <<"alloc_ssl", "mbedtls_ssl_init", "mbedtls_ssl_setup",
      "mbedtls_ssl_set_bio", "mbedtls_ssl_handshake", "free_ssl",
      "mbedtls_ssl_free", "free_ssl">>

HandshakeFailedSteps ==
    <<"alloc_ssl", "mbedtls_ssl_init", "mbedtls_ssl_setup",
      "mbedtls_ssl_set_bio", "mbedtls_ssl_handshake", "mbedtls_ssl_free",
      "free_ssl">>

\* A call enters an engine call that waits for the peer: pc names the engine
\* call, given says what module.ssl was when the engine got it.  At most
\* MaxWaiting calls wait at a time.
WaitingCall(pc, s, c, given) ==
    [pc |-> pc, self_p |-> s, context_p |-> c, given |-> given]

Wait(call) ==
    /\ BagCardinality(waiting) < MaxWaiting
    /\ waiting' = waiting (+) SetToBag({call})
    /\ last' = LastNone

\* The engine call of a waiting call returns.
Resume(call) ==
    /\ BagIn(call, waiting)
    /\ waiting' = waiting (-) SetToBag({call})

\* ssl_socket_open up to the point where mbedtls_ssl_handshake waits for the
\* peer in the socket (through ssl_recv / ssl_send); the paths that return
\* before the handshake return here.
ssl_socket_open(s, c, socket_p, mode, setupRes) ==
    IF initialized # 1 \/ s = NULL_OBJ \/ c = NULL_OBJ \/ socket_p = NULL
    THEN /\ Return("ssl_socket_open", s, -EINVAL, <<>>)
         /\ sessState' = IF s = NULL_OBJ THEN sessState
                         ELSE [sessState EXCEPT ![s] = "Error"]
         /\ UNCHANGED <<moduleVars, ssl_allocated, conf_allocated, confVars,
                        ssl, ctx, sock, ctxOutstanding,
                   waiting, bridge>>
    ELSE LET a == alloc_ssl(ssl_allocated) IN
         /\ sock' = [sock EXCEPT ![s] = [ssl_p |-> a.p]]
         /\ IF a.p = NULL
            THEN /\ Return("ssl_socket_open", s, -1, <<"alloc_ssl">>)
                 /\ sessState' = [sessState EXCEPT ![s] = "Error"]
                 /\ ssl_allocated' = a.flag
                 /\ UNCHANGED <<ssl, waiting>>
            ELSE IF setupRes # 0
            THEN /\ ssl' = [SslZero EXCEPT !.state = "init"]
                 /\ ssl_allocated' = free_ssl(a.p, a.flag)
                 /\ sessState' = [sessState EXCEPT ![s] = "Error"]
                 /\ Return("ssl_socket_open", s, setupRes,
                           <<"alloc_ssl", "mbedtls_ssl_init",
                             "mbedtls_ssl_setup", "free_ssl">>)
                 /\ UNCHANGED waiting
            ELSE /\ Wait(WaitingCall("mbedtls_ssl_handshake", s, c, "none"))
                 /\ ssl' = [state |-> "handshaking", conf |-> CONF,
                            bio |-> socket_p]
                 /\ ssl_allocated' = a.flag
                 /\ sessState' = [sessState EXCEPT ![s] = "Handshaking"]
         /\ UNCHANGED <<moduleVars, conf_allocated, confVars, ctx, ctxOutstanding,
                   bridge>>

\* ssl_socket_open from the return of mbedtls_ssl_handshake, for the waiting
\* call w.  self_p->ssl_p is read again: mbedtls_ssl_free(NULL) does nothing.
ssl_socket_open_handshake_returns(w, handshakeRes) ==
    /\ w.pc = "mbedtls_ssl_handshake"
    /\ Resume(w)
    /\ LET s == w.self_p IN
         IF handshakeRes # 0
         THEN /\ ssl' = IF sock[s].ssl_p = SSL
                        THEN [SslZero EXCEPT !.state = "freed"] ELSE ssl
              /\ ssl_allocated' = free_ssl(sock[s].ssl_p, ssl_allocated)
              /\ sessState' = [sessState EXCEPT ![s] = "Error"]
              /\ Return("ssl_socket_open", s, handshakeRes,
                        HandshakeFailedSteps)
         ELSE /\ ssl' = [ssl EXCEPT !.state = "established"]
              /\ sessState' = [sessState EXCEPT ![s] = "Established"]
              /\ Return("ssl_socket_open", s, 0,
                        <<"alloc_ssl", "mbedtls_ssl_init",
                          "mbedtls_ssl_setup", "mbedtls_ssl_set_bio",
                          "mbedtls_ssl_handshake">>)
              /\ UNCHANGED ssl_allocated
    /\ UNCHANGED <<moduleVars, conf_allocated, confVars, ctx, sock,
                   ctxOutstanding, bridge>>

\* ------------------------------------------------------ ssl_socket_close
\* ssl_socket_close up to the point where mbedtls_ssl_close_notify waits in
\* the socket (through ssl_send).
ssl_socket_close(s) ==
    IF s = NULL_OBJ \/ sock[s].ssl_p = NULL
    THEN /\ Return("ssl_socket_close", s, -EINVAL, <<>>)
         /\ UNCHANGED <<moduleVars, ssl_allocated, conf_allocated, confVars,
                        ssl, ctx, sock, ctxOutstanding, sessState,
                        waiting, bridge>>
    ELSE /\ Wait(WaitingCall("mbedtls_ssl_close_notify", s, NULL_OBJ,
                              "none"))
         /\ UNCHANGED <<moduleVars, ssl_allocated, conf_allocated, confVars,
                        ssl, ctx, sock, ctxOutstanding, sessState, bridge>>

\* ssl_socket_close from the return of mbedtls_ssl_close_notify, for the
\* waiting call w.  self_p->ssl_p is read again for mbedtls_ssl_free and
\* free_ssl.
ssl_socket_close_notify_returns(w) ==
    /\ w.pc = "mbedtls_ssl_close_notify"
    /\ Resume(w)
    /\ LET s == w.self_p IN
         /\ ssl' = IF sock[s].ssl_p = SSL
                   THEN [SslZero EXCEPT !.state = "freed"] ELSE ssl
         /\ ssl_allocated' = free_ssl(sock[s].ssl_p, ssl_allocated)
         /\ sessState' = [sessState EXCEPT ![s] =
                            IF @ = "Established" THEN "Closed" ELSE @]
         /\ Return("ssl_socket_close", s, 0,
                   <<"mbedtls_ssl_close_notify", "mbedtls_ssl_free",
                     "free_ssl">>)
    /\ UNCHANGED <<moduleVars, conf_allocated, confVars, ctx, sock,
                   ctxOutstanding, bridge>>

\* --------------------------------------- ssl_socket_write, ssl_socket_read
\* What the engine is given with self_p->ssl_p: module.ssl set up or not, or
\* a pointer to no engine session.
EngineGiven(s) ==
    IF sock[s].ssl_p = WILD THEN "wild"
    ELSE IF ssl.state \in {"handshaking", "established"} THEN "set up"
    ELSE "not set up"

\* ssl_socket_write / ssl_socket_read up to the return of the engine call or,
\* when mbedtls_ssl_write / mbedtls_ssl_read goes to the socket (through
\* ssl_send / ssl_recv), up to its wait there.  On a session object that is
\* not set up the engine returns ioRes at once, before any socket call.
ssl_socket_write(s, buf_p, ioRes) ==
    IF s = NULL_OBJ \/ sock[s].ssl_p = NULL \/ buf_p = NULL
    THEN /\ Return("ssl_socket_write", s, -EINVAL, <<>>)
         /\ UNCHANGED <<moduleVars, ssl_allocated, conf_allocated, confVars,
                        ssl, ctx, sock, ctxOutstanding, sessState,
                        waiting, bridge>>
    ELSE IF EngineGiven(s) = "not set up"
    THEN /\ Return("ssl_socket_write", s, ioRes, <<"mbedtls_ssl_write">>)
         /\ UNCHANGED <<moduleVars, ssl_allocated, conf_allocated, confVars,
                        ssl, ctx, sock, ctxOutstanding, sessState,
                        waiting, bridge>>
    ELSE /\ Wait(WaitingCall("mbedtls_ssl_write", s, NULL_OBJ,
                             EngineGiven(s)))
         /\ UNCHANGED <<moduleVars, ssl_allocated, conf_allocated, confVars,
                        ssl, ctx, sock, ctxOutstanding, sessState, bridge>>

ssl_socket_read(s, buf_p, ioRes) ==
    IF s = NULL_OBJ \/ sock[s].ssl_p = NULL \/ buf_p = NULL
    THEN /\ Return("ssl_socket_read", s, -EINVAL, <<>>)
         /\ UNCHANGED <<moduleVars, ssl_allocated, conf_allocated, confVars,
                        ssl, ctx, sock, ctxOutstanding, sessState,
                        waiting, bridge>>
    ELSE IF EngineGiven(s) = "not set up"
    THEN /\ Return("ssl_socket_read", s, ioRes, <<"mbedtls_ssl_read">>)
         /\ UNCHANGED <<moduleVars, ssl_allocated, conf_allocated, confVars,
                        ssl, ctx, sock, ctxOutstanding, sessState,
                        waiting, bridge>>
    ELSE /\ Wait(WaitingCall("mbedtls_ssl_read", s, NULL_OBJ,
                             EngineGiven(s)))
         /\ UNCHANGED <<moduleVars, ssl_allocated, conf_allocated, confVars,
                        ssl, ctx, sock, ctxOutstanding, sessState, bridge>>

\* ssl_socket_write / ssl_socket_read from the return of the engine call, for
\* the waiting call w: the engine's result is returned as it is.
ssl_socket_write_returns(w, ioRes) ==
    /\ w.pc = "mbedtls_ssl_write"
    /\ Resume(w)
    /\ Return("ssl_socket_write", w.self_p, ioRes, <<"mbedtls_ssl_write">>)
    /\ UNCHANGED <<moduleVars, ssl_allocated, conf_allocated, confVars, ssl,
                   ctx, sock, ctxOutstanding, sessState, bridge>>

ssl_socket_read_returns(w, ioRes) ==
    /\ w.pc = "mbedtls_ssl_read"
    /\ Resume(w)
    /\ Return("ssl_socket_read", w.self_p, ioRes, <<"mbedtls_ssl_read">>)
    /\ UNCHANGED <<moduleVars, ssl_allocated, conf_allocated, confVars, ssl,
                   ctx, sock, ctxOutstanding, sessState, bridge>>

ssl_socket_size(s) ==
    /\ Return("ssl_socket_size", s, IF s = NULL_OBJ THEN -EINVAL ELSE 0, <<>>)
    /\ UNCHANGED <<moduleVars, ssl_allocated, conf_allocated, confVars, ssl,
                   ctx, sock, ctxOutstanding, sessState,
                   waiting, bridge>>

\* ------------------------------------------------------ ssl_send, ssl_recv
\* The socket calls a callback makes, in order, and the value it returns.
\* socketRes is what the socket primitive returns for the call.
ssl_send_translating(ctx_p, buf_p, len, socketRes) ==
    [calls |-> <<[fn |-> "socket_write", handle |-> ctx_p, buf |-> buf_p,
                  len |-> len]>>,
     ret |-> IF socketRes < 0 THEN -1 ELSE socketRes]

ssl_send(ctx_p, buf_p, len, socketRes) ==
    [calls |-> <<[fn |-> "socket_write", handle |-> ctx_p, buf |-> buf_p,
                  len |-> len]>>,
     ret |-> socketRes]

ssl_recv(ctx_p, buf_p, len, socketRes) ==
    [calls |-> <<[fn |-> "socket_read", handle |-> ctx_p, buf |-> buf_p,
                  len |-> len]>>,
     ret |-> socketRes]

\* The engine calls one of the callbacks with arguments of its choice.  The
\* callbacks read none of the module's or the callers' objects.
InitBridge ==
    /\ initialized = 0
    /\ ctr_drbg = "raw"
    /\ seedCalls = 0
    /\ ssl_allocated = 0
    /\ conf_allocated = 0
    /\ cert = <<>>
    /\ key = "none"
    /\ conf = ConfZero
    /\ ssl = SslZero
    /\ ctx = [c \in Contexts |-> [protocol |-> 0, conf_p |-> NULL]]
    /\ sock = [s \in Sessions |-> [ssl_p |-> NULL]]
    /\ ctxOutstanding = [c \in Contexts |-> FALSE]
    /\ sessState = [s \in Sessions |-> "Unopened"]
    /\ last = LastNone
    /\ waiting = EmptyBag
    /\ \E fn \in {"ssl_send", "ssl_recv"}, h \in BridgeHandles,
          b \in BridgeBuffers, n \in BridgeLens :
         \E r \in SocketResults(n) :
           bridge = [pc |-> "call", fn |-> fn, ctx_p |-> h, buf_p |-> b,
                     len |-> n, socketRes |-> r, calls |-> <<>>, ret |-> 0]

BridgeSend ==
    /\ bridge.pc = "call"
    /\ bridge.fn = "ssl_send"
    /\ LET r == ssl_send(bridge.ctx_p, bridge.buf_p, bridge.len,
                         bridge.socketRes)
       IN bridge' = [bridge EXCEPT !.pc = "done", !.calls = r.calls,
                                   !.ret = r.ret]
    /\ UNCHANGED <<moduleVars, ssl_allocated, conf_allocated, confVars, ssl,
                   ctx, sock, ctxOutstanding, sessState, last, waiting>>

BridgeRecv ==
    /\ bridge.pc = "call"
    /\ bridge.fn = "ssl_recv"
    /\ LET r == ssl_recv(bridge.ctx_p, bridge.buf_p, bridge.len,
                         bridge.socketRes)
       IN bridge' = [bridge EXCEPT !.pc = "done", !.calls = r.calls,
                                   !.ret = r.ret]
    /\ UNCHANGED <<moduleVars, ssl_allocated, conf_allocated, confVars, ssl,
                   ctx, sock, ctxOutstanding, sessState, last, waiting>>

NextBridge ==
    \/ BridgeSend
    \/ BridgeRecv

SpecBridge == InitBridge /\ [][NextBridge]_vars

\* ------------------------------------------------------- specification
\* The API calls with their inputs.  A result of an engine call is drawn only
\* where the call is made, and from what the engine can return in that state:
\* a handshake completes only over a configuration that has a random
\* generator bound (mbedtls_ssl_conf_rng), and a record is read or written
\* only on an engine session that was set up when the engine got it.
ModuleInit == \E r \in SeedResults : ssl_module_init(r)

ContextInit ==
    \E c \in Contexts \cup {NULL_OBJ}, p \in Protocols :
      \E r \in IF c # NULL_OBJ /\ initialized = 1 /\ conf_allocated # 1
               THEN DefaultsResults ELSE {0} :
        ssl_context_init(c, p, r)

ContextDeinit == \E c \in Contexts \cup {NULL_OBJ} : ssl_context_deinit(c)

LoadCertificateChain ==
    \E c \in Contexts \cup {NULL_OBJ}, cert_p \in CertArgs,
       key_p \in KeyBuffers :
      \E kr \in IF key_p = NULL THEN {0} ELSE KeyResults, r \in OwnCertResults :
        ssl_context_load_cert_chain(c, cert_p, key_p, kr, r)

SessionOpen ==
    \E s \in Sessions \cup {NULL_OBJ}, c \in Contexts \cup {NULL_OBJ},
       socket_p \in Sockets, m \in Modes :
      \E sr \in IF /\ initialized = 1 /\ s # NULL_OBJ /\ c # NULL_OBJ
                   /\ socket_p # NULL /\ ssl_allocated # 1
                THEN SetupResults ELSE {0} :
        ssl_socket_open(s, c, socket_p, m, sr)

\* The handshake of a waiting ssl_socket_open ends.  It can complete only
\* over a configuration with a random generator and on an engine session
\* that nobody freed or re-initialized in the meantime.
HandshakeReturns ==
    \E w \in BagToSet(waiting) :
      \E hr \in IF conf.rng /\ ssl.state \in {"handshaking", "established"}
                THEN HandshakeResults ELSE HandshakeResults \ {0} :
        ssl_socket_open_handshake_returns(w, hr)

SessionClose == \E s \in Sessions \cup {NULL_OBJ} : ssl_socket_close(s)

CloseNotifyReturns ==
    \E w \in BagToSet(waiting) : ssl_socket_close_notify_returns(w)

SessionWrite ==
    \E s \in Sessions \cup {NULL_OBJ}, b \in Buffers, r \in IoResultsNotSetUp :
        ssl_socket_write(s, b, r)

SessionRead ==
    \E s \in Sessions \cup {NULL_OBJ}, b \in Buffers, r \in IoResultsNotSetUp :
        ssl_socket_read(s, b, r)

\* What mbedtls_ssl_write / mbedtls_ssl_read can return to the waiting call
\* w: a record result or error.  When the engine was given a pointer to no
\* engine session, or module.ssl was freed while the call waited, the engine
\* works on an object that is not set up and its bad-input error is
\* possible too.
IoResultsFor(w) ==
    IF w.given = "wild" \/ ssl.state \notin {"handshaking", "established"}
    THEN IoResults \cup IoResultsNotSetUp
    ELSE IoResults

WriteReturns ==
    \E w \in BagToSet(waiting) :
      \E r \in IoResultsFor(w) : ssl_socket_write_returns(w, r)

ReadReturns ==
    \E w \in BagToSet(waiting) :
      \E r \in IoResultsFor(w) : ssl_socket_read_returns(w, r)

SessionSize == \E s \in Sessions \cup {NULL_OBJ} : ssl_socket_size(s)

Next ==
    \/ ModuleInit
    \/ ContextInit
    \/ ContextDeinit
    \/ LoadCertificateChain
    \/ SessionOpen
    \/ HandshakeReturns
    \/ SessionClose
    \/ CloseNotifyReturns
    \/ SessionWrite
    \/ WriteReturns
    \/ SessionRead
    \/ ReadReturns
    \/ SessionSize

\* Every call in every order.  The context calls and the session calls share
\* only module.initialized and the content of module.conf, so the
\* specifications below each take the calls that touch one part of the state.
Spec == Init /\ [][Next]_vars

\* The calls that read or write the configuration slot and the certificate
\* material; the session calls leave all of these unchanged.
NextContext ==
    \/ ModuleInit
    \/ ContextInit
    \/ ContextDeinit
    \/ LoadCertificateChain

\* None of these calls reads or writes a struct ssl_socket_t: the Session
\* objects are taken zeroed.
InitContext == Init /\ \A s \in Sessions : sock[s].ssl_p = NULL

SpecContext == InitContext /\ [][NextContext]_vars

\* The session calls and ssl_context_init read no struct ssl_context_t field
\* (ssl_context_init only writes them): for them the Context objects are
\* taken zeroed.
InitSession == Init /\ \A c \in Contexts : ctx[c].conf_p = NULL

\* Callers that zero their objects before the first call.
InitZeroed == InitSession /\ InitContext

\* The calls of a session's life, with the ssl_context_init that gives
\* module.conf its content.  None of the session calls reads a Context
\* object or the occupied flag of the configuration slot.
NextSession ==
    \/ ModuleInit
    \/ ContextInit
    \/ SessionOpen
    \/ HandshakeReturns
    \/ SessionClose
    \/ CloseNotifyReturns
    \/ SessionWrite
    \/ WriteReturns
    \/ SessionRead
    \/ ReadReturns
    \/ SessionSize

SpecSession == InitZeroed /\ [][NextSession]_vars

\* Opening and closing sessions, on Session objects nobody initialized.
NextOpenClose ==
    \/ ModuleInit
    \/ ContextInit
    \/ SessionOpen
    \/ HandshakeReturns
    \/ SessionClose
    \/ CloseNotifyReturns

SpecOpenClose == InitSession /\ [][NextOpenClose]_vars

\* The calls that allocate and release the two slots.
NextLifecycle ==
    \/ ModuleInit
    \/ ContextInit
    \/ ContextDeinit
    \/ SessionOpen
    \/ HandshakeReturns
    \/ SessionClose
    \/ CloseNotifyReturns

SpecLifecycle == InitZeroed /\ [][NextLifecycle]_vars

\* Contexts deinitialized while Sessions stay open.
NextTeardown ==
    \/ ModuleInit
    \/ ContextInit
    \/ ContextDeinit
    \/ SessionOpen
    \/ HandshakeReturns

SpecTeardown == Init /\ [][NextTeardown]_vars

TypeOK ==
    /\ initialized \in {0, 1}
    /\ ssl_allocated \in {0, 1}
    /\ conf_allocated \in {0, 1}
    /\ seedCalls \in 0..1
    /\ Len(cert) <= MaxChain
    /\ \A c \in Contexts : ctx[c].conf_p \in {NULL, CONF, WILD}
    /\ \A s \in Sessions : sock[s].ssl_p \in {NULL, SSL, WILD}
    /\ BagCardinality(waiting) <= MaxWaiting
    /\ \A w \in BagToSet(waiting) :
          /\ w.pc \in {"mbedtls_ssl_handshake", "mbedtls_ssl_close_notify",
                       "mbedtls_ssl_write", "mbedtls_ssl_read"}
          /\ w.self_p \in Sessions

\* ================================================================ claims
InSteps(x) == \E i \in 1..Len(last.steps) : last.steps[i] = x

\* The call recorded in l failed in the allocator: the slot was occupied.
ContextBusy(l) == l.op = "ssl_context_init" /\ l.ret = -1 /\ l.steps = <<"alloc_conf">>
SessionBusy(l) == l.op = "ssl_socket_open" /\ l.ret = -1 /\ l.steps = <<"alloc_ssl">>

OutstandingContexts == {c \in Contexts : ctxOutstanding[c]}
OutstandingSessions == {s \in Sessions : sessState[s] = "Established"}

\* C1: after any sequence of calls at most one Context is outstanding (its
\* most recent ssl_context_init succeeded and no ssl_context_deinit on it
\* has succeeded since).
C1_AtMostOneContextOutstanding == Cardinality(OutstandingContexts) <= 1

\* C2: after any sequence of ssl_socket_open and ssl_socket_close calls at
\* most one Session is outstanding (its most recent ssl_socket_open succeeded
\* and no ssl_socket_close on it has succeeded since).
C2_AtMostOneSessionOutstanding == Cardinality(OutstandingSessions) <= 1

\* The last call was an ssl_socket_open that took the session slot and whose
\* handshake failed.
HandshakeFailed ==
    /\ last.op = "ssl_socket_open"
    /\ InSteps("mbedtls_ssl_handshake")
    /\ last.ret # 0

C3_SlotFreeOnReturn ==
    HandshakeFailed =>
        /\ last.ret \in HandshakeResults
        /\ last.ret # -1
        /\ ssl_allocated = 0

C3_NextOpenNotBusy ==
    (HandshakeFailed /\ last'.op = "ssl_socket_open") => ~SessionBusy(last')

\* C3: when ssl_socket_open took the session slot and the handshake failed,
\* it returns the engine's handshake error code and the session slot is free
\* on return; an ssl_socket_open issued as the next call does not fail in
\* alloc_ssl.
C3_HandshakeFailureReleasesSlot ==
    [](C3_SlotFreeOnReturn) /\ [][C3_NextOpenNotBusy]_vars

C3_Witness == HandshakeFailed /\ ssl_allocated = 0

\* C4: every ssl_context_init that returns an error leaves the configuration
\* slot free if it was free before the call, whichever step failed.
C4_FailedContextInitLeavesSlotFree ==
    [][(/\ last'.op = "ssl_context_init"
        /\ last'.ret # 0
        /\ conf_allocated = 0) => conf_allocated' = 0]_vars

\* C5: with the module initialized, an ssl_context_init on a Context issued
\* while another Context is outstanding fails in alloc_conf (ResourceBusy).
C5_SecondContextInitIsBusy ==
    (/\ last.op = "ssl_context_init"
     /\ last.obj # NULL_OBJ
     /\ initialized = 1
     /\ \E c \in Contexts : c # last.obj /\ ctxOutstanding[c])
    => ContextBusy(last)

\* C6: with the module initialized, an ssl_socket_open with valid arguments
\* issued while another Session is outstanding fails in alloc_ssl
\* (ResourceBusy) and runs no handshake.
C6_SecondSessionOpenIsBusy ==
    (/\ last.op = "ssl_socket_open"
     /\ last.obj # NULL_OBJ
     /\ last.ret # -EINVAL
     /\ \E s \in Sessions : s # last.obj /\ sessState[s] = "Established")
    => (SessionBusy(last) /\ ~InSteps("mbedtls_ssl_handshake"))

\* C7: ssl_context_deinit on a Context that is not outstanding (never
\* initialized, its ssl_context_init failed, or already deinitialized) fails
\* with -EINVAL and leaves the configuration slot unchanged.
C7_DeinitWithoutSlotFails ==
    [][(/\ last'.op = "ssl_context_deinit"
        /\ last'.obj # NULL_OBJ
        /\ ~ctxOutstanding[last'.obj])
       => (last'.ret = -EINVAL /\ conf_allocated' = conf_allocated)]_vars

\* C8: after ssl_socket_close has succeeded on an Established session, every
\* later ssl_socket_write or ssl_socket_read on that session fails with
\* -EINVAL and makes no engine call.
C8_IoAfterCloseFails ==
    [][\A s \in Sessions, b \in Buffers, r \in IoResultsNotSetUp :
          (/\ ssl_socket_write(s, b, r) \/ ssl_socket_read(s, b, r)
           /\ sessState[s] = "Closed")
              => /\ last'.op \in {"ssl_socket_write", "ssl_socket_read"}
                 /\ last'.ret = -EINVAL
                 /\ last'.steps = <<>>]_vars

\* C9: ssl_socket_close on a session that is not Established (already closed,
\* its ssl_socket_open failed, or it holds no slot) fails with -EINVAL, sends
\* no close-notify and leaves the session slot's occupied flag unchanged.
C9_CloseNotEstablishedFails ==
    [][(/\ last'.op = "ssl_socket_close"
        /\ last'.obj # NULL_OBJ
        /\ sessState[last'.obj] # "Established")
       => (/\ last'.ret = -EINVAL
           /\ last'.steps = <<>>
           /\ ssl_allocated' = ssl_allocated)]_vars

C10_SeededAtMostOnce == seedCalls <= 1

C10_LaterInitIsNoOp ==
    (last'.op = "ssl_module_init" /\ ctr_drbg = "seeded")
    => (/\ last'.ret = 0
        /\ last'.steps = <<>>
        /\ UNCHANGED <<initialized, ctr_drbg, seedCalls>>)

\* C10: an ssl_module_init made after a first ssl_module_init that succeeded
\* returns 0 and makes no engine call (no entropy or generator init, no
\* seeding); the generator is seeded at most once.
C10_ModuleInitIdempotent ==
    [](C10_SeededAtMostOnce) /\ [][C10_LaterInitIsNoOp]_vars

C10_Witness ==
    /\ last.op = "ssl_module_init"
    /\ last.steps = <<>>
    /\ last.ret = 0
    /\ ctr_drbg = "seeded"
    /\ seedCalls = 1

\* C11: a call of ssl_module_init, ssl_context_init or ssl_socket_open returns
\* success only when the random generator has been seeded successfully; in
\* particular not after an ssl_module_init whose seeding failed.
C11_SuccessImpliesSeeded ==
    (/\ last.op \in {"ssl_module_init", "ssl_context_init", "ssl_socket_open"}
     /\ last.ret = 0)
        => ctr_drbg = "seeded"

\* This step is an ssl_socket_write or ssl_socket_read on Session s that
\* goes on to mbedtls_ssl_write / mbedtls_ssl_read.
IoReachesEngine(s) ==
    /\ \E b \in Buffers, r \in IoResultsNotSetUp :
          ssl_socket_write(s, b, r) \/ ssl_socket_read(s, b, r)
    /\ waiting' # waiting \/ last'.steps # <<>>

\* C12: ssl_socket_write and ssl_socket_read hand the call to the engine only
\* for a Session that is Established (its most recent ssl_socket_open
\* succeeded and it was not closed since); on a Session whose open failed the
\* call is rejected without touching the engine session object.
C12_IoOnlyWhenEstablished ==
    [][\A s \in Sessions :
          IoReachesEngine(s) => sessState[s] = "Established"]_vars

\* The moves of one Session object that the state machine
\* Unopened -> Handshaking -> Established -> Closed (Error from Unopened or
\* Handshaking) allows.
SessionMoves ==
    {<<"Unopened", "Handshaking">>, <<"Handshaking", "Established">>,
     <<"Unopened", "Error">>, <<"Handshaking", "Error">>,
     <<"Established", "Closed">>}

\* C13: a Session object's state only moves along Unopened -> Handshaking ->
\* Established -> Closed or into Error from Unopened or Handshaking, and Error
\* is absorbing: after a failed ssl_socket_open no later call brings the
\* object to Established.
C13_SessionStateMachine ==
    [][\A s \in Sessions :
          \/ sessState'[s] = sessState[s]
          \/ <<sessState[s], sessState'[s]>> \in SessionMoves]_vars

\* C14: ssl_socket_open succeeds only when the Context passed to it is
\* initialized (it holds the configuration slot), and the engine session is
\* set up from that Context's own handle conf_p; with a Context that was never
\* initialized, whose init failed or that was deinitialized, the Session does
\* not become Established.
C14_OpenNeedsInitializedContext ==
    [][\A w \in BagToSet(waiting) :
          (/\ ssl_socket_open_handshake_returns(w, 0)
           /\ last'.ret = 0)
              => /\ ctxOutstanding[w.context_p]
                 /\ ssl'.conf = ctx[w.context_p].conf_p]_vars

\* C15: ssl_context_deinit on an initialized Context returns 0 also while a
\* Session opened with it is outstanding, and of the program's state it
\* changes only conf_allocated: ssl_allocated, every Session's ssl_p, the
\* engine session, the Contexts' fields and the configuration storage are
\* left as they were.
C15_DeinitOnlyClearsConfSlot ==
    [][(/\ last'.op = "ssl_context_deinit"
        /\ last'.obj # NULL_OBJ
        /\ ctxOutstanding[last'.obj])
          => /\ last'.ret = 0
             /\ conf_allocated' = 0
             /\ UNCHANGED <<ssl_allocated, sock, ssl, ctx, confVars,
                            moduleVars, sessState>>]_vars

C15_Witness ==
    /\ last.op = "ssl_context_deinit"
    /\ last.ret = 0
    /\ conf_allocated = 0
    /\ ssl_allocated = 1
    /\ \E s \in Sessions :
          sessState[s] = "Established" /\ sock[s].ssl_p = SSL

\* The certificate material the configuration holds: the own certificate is
\* the head of module.cert (mbedtls_ssl_conf_own_cert(.., &module.cert, ..)),
\* the trust chain is the list starting at module.cert.next
\* (mbedtls_ssl_conf_ca_chain(.., module.cert.next, NULL)).
OwnCertificate(chain) == IF chain = <<>> THEN 0 ELSE Head(chain)
TrustChain(chain, ca_chain) ==
    IF ca_chain = 0 THEN <<>> ELSE SubSeq(chain, ca_chain, Len(chain))

\* C16: ssl_context_load_cert_chain is not additive: when a successful load on
\* a Context is followed by a second successful load on the same Context, the
\* own certificate and the trust chain held afterwards are exactly those of
\* the second call's certificates, as if only that call had been made.
C16_SecondLoadReplacesMaterial ==
    [][\A c \in Contexts, a \in CertArgs, k \in KeyBuffers,
          kr \in KeyResults, r \in OwnCertResults :
          (/\ last.op = "ssl_context_load_cert_chain"
           /\ last.ret = 0
           /\ last.obj = c
           /\ ssl_context_load_cert_chain(c, a, k, kr, r)
           /\ last'.ret = 0)
              => /\ OwnCertificate(cert') = Head(ParsedBlocks(a.pem))
                 /\ TrustChain(cert', conf'.ca_chain)
                        = Tail(ParsedBlocks(a.pem))]_vars

\* The socket call a finished callback had to make.
ExpectedSocketCall ==
    [fn |-> IF bridge.fn = "ssl_send" THEN "socket_write" ELSE "socket_read",
     handle |-> bridge.ctx_p, buf |-> bridge.buf_p, len |-> bridge.len]

\* C17: ssl_send and ssl_recv each make exactly one call of socket_write /
\* socket_read with the handle, buffer and length they were given, and return
\* that call's result unchanged, whatever it is.
C17_BridgePassesThrough ==
    bridge.pc = "done" =>
        /\ bridge.calls = <<ExpectedSocketCall>>
        /\ bridge.ret = bridge.socketRes

C17_Witness ==
    /\ bridge.pc = "done"
    /\ bridge.fn = "ssl_send"
    /\ bridge.socketRes < 0
    /\ bridge.ret = bridge.socketRes

\* C19: an occupied slot always has an owner that can release it: when
\* conf_allocated is set some Context holds a non-NULL conf_p, and when
\* ssl_allocated is set some Session holds a non-NULL ssl_p; a busy
\* ssl_context_init / ssl_socket_open on the owner does not take that away.
C19_OccupiedSlotHasHolder ==
    /\ conf_allocated = 1 => \E c \in Contexts : ctx[c].conf_p # NULL
    /\ ssl_allocated = 1 => \E s \in Sessions : sock[s].ssl_p # NULL

\* How often x was called during the last call, and whether a call of x
\* came before a call of y.
StepCount(x) == Cardinality({i \in 1..Len(last.steps) : last.steps[i] = x})
StepBefore(x, y) ==
    \E i, j \in 1..Len(last.steps) :
        i < j /\ last.steps[i] = x /\ last.steps[j] = y

\* C18: when the handshake of an ssl_socket_open fails, mbedtls_ssl_free runs
\* before free_ssl, free_ssl runs exactly once and never before the engine
\* session is freed; a successful ssl_socket_open runs alloc_ssl,
\* mbedtls_ssl_init, mbedtls_ssl_setup, mbedtls_ssl_set_bio and
\* mbedtls_ssl_handshake in this order; the handshake never runs when
\* mbedtls_ssl_setup failed.
C18_OpenStepOrder ==
    /\ HandshakeFailed =>
          /\ StepCount("free_ssl") = 1
          /\ StepCount("mbedtls_ssl_free") = 1
          /\ StepBefore("mbedtls_ssl_free", "free_ssl")
          /\ ~StepBefore("free_ssl", "mbedtls_ssl_free")
    /\ (last.op = "ssl_socket_open" /\ last.ret = 0) =>
          last.steps = <<"alloc_ssl", "mbedtls_ssl_init", "mbedtls_ssl_setup",
                         "mbedtls_ssl_set_bio", "mbedtls_ssl_handshake">>
    /\ (last.op = "ssl_socket_open" /\ last.ret \in SetupResults \ {0}) =>
          /\ StepBefore("alloc_ssl", "mbedtls_ssl_setup")
          /\ ~InSteps("mbedtls_ssl_handshake")

C18_Witness ==
    /\ HandshakeFailed
    /\ last.ret \in HandshakeResults \ {0}
    /\ StepBefore("mbedtls_ssl_handshake", "mbedtls_ssl_free")
    /\ ssl.state = "freed"

====
